---- MODULE Spec2Model ----
(***************************************************************************)
(* A model of tsa87/anb-net:                                               *)
(*   molecule_optimizer/runner/semi_jtvae.py  SemiJTVAEGeneratorPredictor  *)
(*   training/run_experiment.py               main                         *)
(*                                                                         *)
(* Two state machines share the module.  The preprocessing machine is the  *)
(* constructor (build_vocabulary, then preprocess, each a Pool.map fan-out *)
(* over chunks of the input) followed by get_processed_labels.  The        *)
(* training machine is train_gen_pred / train_gen_pred_supervised with the *)
(* test_loop passes they call.                                             *)
(*                                                                         *)
(* Python lists and numpy arrays are sequences; positions the code uses    *)
(* are 0-based and are kept 0-based as values (processed_idxs), so a       *)
(* Python a[i] is At(a, i).                                                *)
(***************************************************************************)
EXTENDS Integers, Sequences, FiniteSets, TLC

(***************************************************************************)
(* Bounds of the model.                                                    *)
(***************************************************************************)
\* longest input list of raw structures
MaxLen == 3

\* partition_all(5000, list_smiles): the chunk length, scaled down so that
\* inputs of MaxLen structures span more than one chunk
ChunkSize == 2

\* largest starting step (load_epoch) of a training run
MaxStart == 1

\* largest configured num_epochs
MaxEpochs == 2

\* most batches the training loader yields per epoch
MaxBatches == 2

\* most batches the validation loader and the test loader yield
MaxEvalBatches == 2

\* N_TEST of the experiment script (10000 there), scaled down so that short
\* lists have a test part and a training part
N_TEST == 1

VARIABLES
    \* ---- preprocessing machine
    pc,                \* position of the constructor / label pipeline
    list_smiles,       \* the input list of raw structures
    chunk_no,          \* number of chunks whose P.map has returned
    slots,             \* results of the P.map in flight, by position in the chunk
    vocab_lists,       \* build_vocabulary's vocab_lists
    vocab,             \* self.vocab
    preprocessed,      \* preprocess's preprocessed list
    processed_smiles,  \* self.processed_smiles
    processed_idxs,    \* self.processed_idxs
    labels,            \* the label array of the experiment script
    processed_labels,  \* the value get_processed_labels returned
    completed,         \* positions whose worker has returned, in completion order
    split,             \* perm_id and the arrays of the experiment script's split
    \* ---- training machine: the arguments and locals of train_gen_pred /
    \* train_gen_pred_supervised, and what the run has done so far
    cfg,               \* the arguments of the call (never assigned by the run)
    tpc,               \* position of the run
    epoch,             \* epochs completed
    batch,             \* batches of the current epoch consumed
    total_step,        \* total_step
    alpha,             \* alpha
    next_alpha,        \* next_alpha
    beta,              \* beta
    lr,                \* the optimizer's learning rate
    meters,            \* meters (of the training function)
    training_mode,     \* self.vae.training
    opt_steps,         \* optimizer.step() calls so far (the parameters' version)
    saved,             \* the checkpoint files written
    emitted,           \* what the last action printed and returned
    calls,             \* the forward calls of the last action, in order
    sched_steps,       \* scheduler.step() calls so far
    recent,            \* the metric vectors of the run's latest steps
    passes,            \* the test_loop passes of the run, in order
    grad,              \* the parameters' .grad
    unclipped,         \* .grad as the latest loss.backward() left it
    consumed,          \* .grad as the latest optimizer.step() read it
    ops                \* the statements the last action ran, in order

prevars == <<pc, list_smiles, chunk_no, slots, vocab_lists, vocab, preprocessed,
             processed_smiles, processed_idxs, labels, processed_labels,
             completed, split>>

trainvars == <<cfg, tpc, epoch, batch, total_step, alpha, next_alpha, beta, lr,
               meters, training_mode, opt_steps, saved, emitted, calls,
               sched_steps, recent, passes, grad, unclipped, consumed, ops>>

vars == <<prevars, trainvars>>

(***************************************************************************)
(* Python / numpy helpers.                                                 *)
(***************************************************************************)
Range(s) == {s[i] : i \in 1..Len(s)}

\* a[i] for a 0-based position i
At(a, i) == a[i + 1]

\* a[:k] and a[k:], which take what there is when a is shorter than k
Take(a, k) == SubSeq(a, 1, IF k < Len(a) THEN k ELSE Len(a))

Drop(a, k) == SubSeq(a, (IF k < Len(a) THEN k ELSE Len(a)) + 1, Len(a))

\* np.random.permutation(n): the arrangements of 0..n-1
permutation(n) ==
    {q \in [1..n -> 0..(n - 1)] : \A i, j \in 1..n : i # j => q[i] # q[j]}

RECURSIVE Flatten(_)
\* [x for l in lists for x in l]
Flatten(lists) ==
    IF lists = <<>> THEN <<>> ELSE Head(lists) \o Flatten(Tail(lists))

\* toolz.partition_all(n, s): consecutive chunks of n elements, the last one
\* possibly shorter, none empty
partition_all(n, s) ==
    [c \in 1..((Len(s) + n - 1) \div n) |->
        SubSeq(s, (c - 1) * n + 1, IF c * n < Len(s) THEN c * n ELSE Len(s))]

\* mask.nonzero()[0], the per-chunk slip: positions counted from the start of
\* each chunk instead of the start of the array
nonzero_chunk_local(mask) ==
    LET hits == SelectSeq([i \in 1..Len(mask) |-> i], LAMBDA i : mask[i])
    IN  [k \in 1..Len(hits) |-> (hits[k] - 1) % ChunkSize]

\* mask.nonzero()[0]: the 0-based positions of the true entries, ascending
nonzero(mask) ==
    LET hits == SelectSeq([i \in 1..Len(mask) |-> i], LAMBDA i : mask[i])
    IN  [k \in 1..Len(hits) |-> hits[k] - 1]

\* a[idxs], the slip that takes a prefix of the right length instead
fancy_index_prefix(a, idxs) == SubSeq(a, 1, Len(idxs))

\* a[idxs] for an integer index array: a new array, a and idxs untouched
fancy_index(a, idxs) == [k \in 1..Len(idxs) |-> At(a, idxs[k])]

\* the lists a set can be turned into by list(set): each element once, in an
\* order the hash seed decides
ListsOf(S) ==
    {l \in [1..Cardinality(S) -> S] : Range(l) = S}

(***************************************************************************)
(* The tree-decomposition collaborator (fast_jtnn.MolTree), a black box:   *)
(* a pure function of the raw string.  Each raw structure of the universe  *)
(* stands for one way the pipeline can go.                                 *)
(*   raises: the stage that raises, or "none"                              *)
(*   nodes:  the clusters, each with its symbol, its ground-truth          *)
(*           candidate (label) and the candidates assemble() enumerates    *)
(***************************************************************************)
Node(sym, lab, enumerated) ==
    [smiles |-> sym, label |-> lab, cands |-> <<>>, enumerated |-> enumerated,
     mol |-> TRUE]

RawStructures == {"CC", "CN", "XX", "CO"}

\* one structure that goes through and one that raises at each stage
FailStructures == {"CC", "XX", "XR", "CO", "XD"}

MolTreeOf(smiles) ==
    CASE smiles = "CC" ->
            \* decomposes; two clusters with the same symbol
            [raises |-> "none",
             nodes |-> <<Node("C", "c1", <<"c1", "c2">>),
                         Node("C", "c1", <<"c1">>)>>]
      [] smiles = "CN" ->
            \* decomposes; enumeration leaves the first node's label out
            [raises |-> "none",
             nodes |-> <<Node("C", "c1", <<"c2">>),
                         Node("N", "n1", <<"n1">>)>>]
      [] smiles = "XX" ->
            \* the MolTree constructor raises
            [raises |-> "MolTree",
             nodes |-> <<Node("X", "x1", <<"x1">>)>>]
      [] smiles = "CO" ->
            \* decomposes, but assemble() raises
            [raises |-> "assemble",
             nodes |-> <<Node("C", "c1", <<"c1">>),
                         Node("O", "o1", <<>>)>>]
      [] smiles = "XR" ->
            \* decomposes, but recover() raises
            [raises |-> "recover",
             nodes |-> <<Node("C", "c1", <<"c1">>),
                         Node("R", "r1", <<"r1">>)>>]
      [] smiles = "XD" ->
            \* decomposes and assembles, but a node has no mol to delete
            [raises |-> "del",
             nodes |-> <<Node("C", "c1", <<"c1">>),
                         Node("D", "d1", <<"d1">>)>>]

\* the failure sentinel of _tensorize
None == [tag |-> "None"]

\* a slot of a P.map whose worker has not returned yet
Pending == [tag |-> "Pending"]

\* a slot of a P.map whose worker raised: P.map raises it in the caller
Raised == [tag |-> "Raised"]

\* what a try body did: whether it raised, and the value it returned or, when
\* it raised, the object it had built so far
Outcome(raised, value) == [raised |-> raised, value |-> value]

(***************************************************************************)
(* The workers.                                                            *)
(***************************************************************************)
\* the try body of _get_vocab (lines 54-55): the constructor, then the
\* cluster symbols of the nodes
try_get_vocab(smiles) ==
    LET t == MolTreeOf(smiles)
    IN  IF t.raises = "MolTree"
        THEN Outcome(TRUE, <<>>)
        ELSE Outcome(FALSE, [i \in 1..Len(t.nodes) |-> t.nodes[i].smiles])

except_vocab_reraise(o) == IF o.raised THEN Raised ELSE o.value

\* except: return [] (lines 56-57)
except_vocab(o) == IF o.raised THEN <<>> ELSE o.value

\* _get_vocab: the cluster symbols of the nodes, [] when the constructor raises
get_vocab(smiles) == except_vocab(try_get_vocab(smiles))

\* mol_tree.assemble() followed by the loop of lines 89-91 on one node
AssembleNode(n) ==
    LET cands == n.enumerated
    IN  [n EXCEPT !.cands = IF n.label \in Range(cands)
                            THEN cands
                            ELSE Append(cands, n.label)]

\* _tensorize without lines 90-91
tensorize_no_append(smiles, assm) ==
    LET t == MolTreeOf(smiles)
    IN  IF t.raises = "MolTree" \/ t.raises = "recover"
           \/ (assm /\ t.raises = "assemble") \/ t.raises = "del"
        THEN None
        ELSE [tag |-> "MolTree", smiles |-> smiles, mol |-> FALSE,
              nodes |-> [i \in 1..Len(t.nodes) |->
                            [(IF assm
                              THEN [t.nodes[i] EXCEPT !.cands = t.nodes[i].enumerated]
                              ELSE t.nodes[i])
                             EXCEPT !.mol = FALSE]]]

\* the tree a try body that raised had built: its nodes as the stages
\* before the raise left them
Partial(smiles, ns) == [tag |-> "Partial", smiles |-> smiles, mol |-> TRUE, nodes |-> ns]

\* the try body of _tensorize (lines 85-95), stage by stage: the constructor,
\* recover(), assemble() and the loop over the candidates, the del statements
try_tensorize(smiles, assm) ==
    LET t == MolTreeOf(smiles)
        assembled == [i \in 1..Len(t.nodes) |->
                         IF assm THEN AssembleNode(t.nodes[i]) ELSE t.nodes[i]]
    IN  IF t.raises = "MolTree" THEN Outcome(TRUE, Partial(smiles, <<>>))
        ELSE IF t.raises = "recover" THEN Outcome(TRUE, Partial(smiles, t.nodes))
        ELSE IF assm /\ t.raises = "assemble" THEN Outcome(TRUE, Partial(smiles, t.nodes))
        ELSE IF t.raises = "del" THEN Outcome(TRUE, Partial(smiles, assembled))
        ELSE Outcome(FALSE,
                     [tag |-> "MolTree", smiles |-> smiles, mol |-> FALSE,
                      nodes |-> [i \in 1..Len(t.nodes) |->
                                    [assembled[i] EXCEPT !.mol = FALSE]]])

except_tensorize_partial(o) == o.value

except_tensorize_reraise(o) == IF o.raised THEN Raised ELSE o.value

\* except: return None (lines 96-97)
except_tensorize(o) == IF o.raised THEN None ELSE o.value

\* _tensorize(smiles, assm): decompose, recover, enumerate the candidates and
\* force each node's label into them, delete the mol objects; None when any
\* stage raises
tensorize(smiles, assm) == except_tensorize(try_tensorize(smiles, assm))

(***************************************************************************)
(* build_vocabulary and preprocess.                                        *)
(***************************************************************************)
chunks == partition_all(ChunkSize, list_smiles)

\* the chunk whose P.map is in flight
Chunk == chunks[chunk_no + 1]

FreshSlots(c) ==
    IF c < Len(chunks) THEN [i \in 1..Len(chunks[c + 1]) |-> Pending] ELSE <<>>

\* the place in the chunk in flight of the k-th worker of it to return
ChunkCompleted ==
    [k \in 1..Len(slots) |->
        completed[Len(completed) - Len(slots) + k] - chunk_no * ChunkSize]

\* the results of a pool call that hands them over as they complete
map_result_unordered(results, order) == [k \in 1..Len(order) |-> results[order[k]]]

\* list(P.map(f, chunk)) (lines 76 and 116): the results by the place of
\* their element in the chunk, whatever the order the workers returned in
map_result(results, order) == results

\* P.map raises in the caller what a worker raised
map_raises(results) == \E i \in 1..Len(results) : results[i] = Raised

\* lines 78-81 without the set(): the flattened list as it is
vocab_result_no_set(lists) == {Flatten(lists)}

\* lines 78-81: flatten, deduplicate through a set, return it as a list
vocab_result(lists) == ListsOf(Range(Flatten(lists)))

\* get_processed_labels that forgets the index map
get_processed_labels_unmapped(labs, idxs) == fancy_index_prefix(labs, idxs)

\* get_processed_labels(labels): labels[self.processed_idxs]
get_processed_labels(labs, idxs) == fancy_index(labs, idxs)

LabelValues == {10, 20}

\* the split before the script has made one
NoSplit ==
    [perm_id |-> <<>>,
     X_train |-> <<>>, X_train_smiles |-> <<>>, L_train |-> <<>>,
     X_test |-> <<>>, X_test_smiles |-> <<>>, L_test |-> <<>>,
     X_Val |-> <<>>, X_Val_smiles |-> <<>>, L_Val |-> <<>>]

\* the state in which __init__ is entered with a list over the structures S
InitPipelineOver(S) ==
    /\ pc = "build_vocabulary"
    /\ list_smiles \in UNION {[1..n -> S] : n \in 0..MaxLen}
    /\ chunk_no = 0
    /\ slots = IF Len(list_smiles) = 0 THEN <<>>
               ELSE [i \in 1..Len(partition_all(ChunkSize, list_smiles)[1]) |-> Pending]
    /\ vocab_lists = <<>>
    /\ vocab = <<>>
    /\ preprocessed = <<>>
    /\ processed_smiles = <<>>
    /\ processed_idxs = <<>>
    /\ labels = <<>>
    /\ processed_labels = <<>>
    /\ completed = <<>>
    /\ split = NoSplit

InitPipeline == InitPipelineOver(RawStructures)

\* one pool worker runs _get_vocab on one element of the chunk in flight
VocabWorker(i) ==
    /\ pc = "build_vocabulary"
    /\ chunk_no < Len(chunks)
    /\ i \in 1..Len(slots)
    /\ slots[i] = Pending
    /\ slots' = [slots EXCEPT ![i] = get_vocab(Chunk[i])]
    /\ completed' = Append(completed, chunk_no * ChunkSize + i)
    /\ split' = split
    /\ UNCHANGED <<pc, list_smiles, chunk_no, vocab_lists, vocab, preprocessed,
                   processed_smiles, processed_idxs, labels, processed_labels>>
    /\ UNCHANGED trainvars

\* P.map returns the chunk's results in submission order; line 76 extends
VocabMapReturn ==
    /\ pc = "build_vocabulary"
    /\ chunk_no < Len(chunks)
    /\ \A i \in 1..Len(slots) : slots[i] # Pending
    /\ IF map_raises(slots)
       THEN /\ pc' = "raised"
            /\ UNCHANGED <<vocab_lists, chunk_no, slots>>
       ELSE /\ vocab_lists' = vocab_lists \o map_result(slots, ChunkCompleted)
            /\ chunk_no' = chunk_no + 1
            /\ slots' = FreshSlots(chunk_no + 1)
            /\ pc' = pc
    /\ UNCHANGED <<list_smiles, vocab, preprocessed, processed_smiles,
                   processed_idxs, labels, processed_labels, completed, split>>
    /\ UNCHANGED trainvars

\* lines 78-81, and __init__ goes on to preprocess
BuildVocabularyReturn ==
    /\ pc = "build_vocabulary"
    /\ chunk_no = Len(chunks)
    /\ vocab' \in vocab_result(vocab_lists)
    /\ pc' = "preprocess"
    /\ chunk_no' = 0
    /\ slots' = FreshSlots(0)
    /\ completed' = <<>>
    /\ split' = split
    /\ UNCHANGED <<list_smiles, vocab_lists, preprocessed, processed_smiles,
                   processed_idxs, labels, processed_labels>>
    /\ UNCHANGED trainvars

\* one pool worker runs _tensorize (assm defaulted) on one element
TensorizeWorker(i) ==
    /\ pc = "preprocess"
    /\ chunk_no < Len(chunks)
    /\ i \in 1..Len(slots)
    /\ slots[i] = Pending
    /\ slots' = [slots EXCEPT ![i] = tensorize(Chunk[i], TRUE)]
    /\ completed' = Append(completed, chunk_no * ChunkSize + i)
    /\ split' = split
    /\ UNCHANGED <<pc, list_smiles, chunk_no, vocab_lists, vocab, preprocessed,
                   processed_smiles, processed_idxs, labels, processed_labels>>
    /\ UNCHANGED trainvars

\* P.map returns the chunk's results in submission order; line 116 extends
PreprocessMapReturn ==
    /\ pc = "preprocess"
    /\ chunk_no < Len(chunks)
    /\ \A i \in 1..Len(slots) : slots[i] # Pending
    /\ IF map_raises(slots)
       THEN /\ pc' = "raised"
            /\ UNCHANGED <<preprocessed, chunk_no, slots>>
       ELSE /\ preprocessed' = preprocessed \o map_result(slots, ChunkCompleted)
            /\ chunk_no' = chunk_no + 1
            /\ slots' = FreshSlots(chunk_no + 1)
            /\ pc' = pc
    /\ UNCHANGED <<list_smiles, vocab_lists, vocab, processed_smiles,
                   processed_idxs, labels, processed_labels, completed, split>>
    /\ UNCHANGED trainvars

\* lines 117-121: the mask of the non-None results, its positions, the
\* results at those positions; __init__ stores both
PreprocessReturn ==
    /\ pc = "preprocess"
    /\ chunk_no = Len(chunks)
    /\ LET mask == [i \in 1..Len(preprocessed) |-> preprocessed[i] # None]
           idxs == nonzero(mask)
       IN  /\ processed_idxs' = idxs
           /\ processed_smiles' = fancy_index(preprocessed, idxs)
    /\ pc' = "constructed"
    /\ UNCHANGED <<list_smiles, chunk_no, slots, vocab_lists, vocab, preprocessed,
                   labels, processed_labels, completed, split>>
    /\ UNCHANGED trainvars

\* run_experiment.py line 63: the label column, one label per raw structure
LoadLabels ==
    /\ pc = "constructed"
    /\ labels' \in [1..Len(list_smiles) -> LabelValues]
    /\ pc' = "labels_loaded"
    /\ UNCHANGED <<list_smiles, chunk_no, slots, vocab_lists, vocab, preprocessed,
                   processed_smiles, processed_idxs, processed_labels, completed, split>>
    /\ UNCHANGED trainvars

GetProcessedLabels ==
    /\ pc = "labels_loaded"
    /\ processed_labels' = get_processed_labels(labels, processed_idxs)
    /\ pc' = "labels_processed"
    /\ UNCHANGED <<list_smiles, chunk_no, slots, vocab_lists, vocab, preprocessed,
                   processed_smiles, processed_idxs, labels, completed, split>>
    /\ UNCHANGED trainvars

\* math.floor(len(X_train) * VAL_FRAC) of run_experiment.py line 136, with
\* VAL_FRAC (0.05 there) scaled up to 1/2 so that short lists have a
\* validation part
val_cut(n) == n \div 2

\* run_experiment.py lines 127-144 for the permutation q: smiles is the raw
\* column, preprocessed the processed trees, labs the labels line 122 left
shuffled_split(q, smiles, trees, labs) ==
    LET train == Drop(q, N_TEST)
        test == Take(q, N_TEST)
        X_train == fancy_index(trees, train)
        X_train_smiles == fancy_index(smiles, train)
        L_train == fancy_index(labs, train)
        cut == val_cut(Len(X_train))
    IN  [perm_id |-> q,
         X_test |-> fancy_index(trees, test),
         X_test_smiles |-> fancy_index(smiles, test),
         L_test |-> fancy_index(labs, test),
         X_Val |-> Take(X_train, cut),
         X_Val_smiles |-> Take(X_train_smiles, cut),
         L_Val |-> Take(L_train, cut),
         X_train |-> Drop(X_train, cut),
         X_train_smiles |-> Drop(X_train_smiles, cut),
         L_train |-> Drop(L_train, cut)]

\* run_experiment.py lines 125-144: the shuffled split
ShuffledSplit ==
    /\ pc = "labels_processed"
    /\ \E q \in permutation(Len(processed_labels)) :
          split' = shuffled_split(q, list_smiles, processed_smiles, processed_labels)
    /\ pc' = "split"
    /\ UNCHANGED <<list_smiles, chunk_no, slots, vocab_lists, vocab, preprocessed,
                   processed_smiles, processed_idxs, labels, processed_labels,
                   completed>>
    /\ UNCHANGED trainvars

\* the experiment script from the loading of the labels on
NextSplit ==
    \/ LoadLabels
    \/ GetProcessedLabels
    \/ ShuffledSplit

NextPre ==
    \/ \E i \in 1..ChunkSize : VocabWorker(i)
    \/ VocabMapReturn
    \/ BuildVocabularyReturn
    \/ \E i \in 1..ChunkSize : TensorizeWorker(i)
    \/ PreprocessMapReturn
    \/ PreprocessReturn
    \/ LoadLabels
    \/ GetProcessedLabels

\* __init__ alone: build_vocabulary and preprocess
NextPool ==
    \/ \E i \in 1..ChunkSize : VocabWorker(i)
    \/ VocabMapReturn
    \/ BuildVocabularyReturn
    \/ \E i \in 1..ChunkSize : TensorizeWorker(i)
    \/ PreprocessMapReturn
    \/ PreprocessReturn


(***************************************************************************)
(* The training machine: train_gen_pred (labelled and unlabelled branch)   *)
(* and train_gen_pred_supervised (labelled branch only).                   *)
(*                                                                         *)
(* Numbers.  Losses, accuracies, weights and rates are floats in the code; *)
(* here they are integers, and the values the model and the configuration  *)
(* can supply are chosen so that every division the code performs on them  *)
(* (loss / 4 / pred_loss, (a + b) / 2, meters / print_iter) is exact, so   *)
(* that \div computes the quotient the code computes.                      *)
(***************************************************************************)
Modes == {"train_gen_pred", "train_gen_pred_supervised"}

\* the ten values a forward call of the model returns, in the order of the
\* tuple of lines 302-313
Out(loss, kl, mae, word, topo, assm, pred, wacc, tacc, sacc) ==
    [loss |-> loss, kl_div |-> kl, mae |-> mae, word_loss |-> word,
     topo_loss |-> topo, assm_loss |-> assm, pred_loss |-> pred,
     wacc |-> wacc, tacc |-> tacc, sacc |-> sacc]

\* two things a forward call can return
OutA == Out(48, 6, 6, 12, 18, 24, 6, 12, 24, 36)

OutB == Out(96, 12, 18, 30, 6, 12, 12, 36, 12, 24)

Zeros == [i \in 1..10 |-> 0]

VecAdd(a, b) == [i \in 1..10 |-> a[i] + b[i]]

\* meters /= n
VecDiv(a, n) == [i \in 1..10 |-> a[i] \div n]

RECURSIVE VecSum(_)
VecSum(vs) == IF vs = <<>> THEN Zeros ELSE VecAdd(Head(vs), VecSum(Tail(vs)))

RECURSIVE Pow(_, _)
Pow(b, k) == IF k = 0 THEN 1 ELSE b * Pow(b, k - 1)

Min(a, b) == IF a < b THEN a ELSE b

compose_joint_acc_summed(l, u) ==
    [loss |-> l.loss + u.loss,
     kl_div |-> l.kl_div + u.kl_div,
     mae |-> l.mae,
     pred_loss |-> l.pred_loss,
     word_loss |-> l.word_loss + u.word_loss,
     topo_loss |-> l.topo_loss + u.topo_loss,
     assm_loss |-> l.assm_loss + u.assm_loss,
     wacc |-> l.wacc + u.wacc,
     tacc |-> l.tacc + u.tacc,
     sacc |-> l.sacc + u.sacc]

\* lines 327-336: the step's values from the two branches
compose_joint(l, u) ==
    [loss |-> l.loss + u.loss,
     kl_div |-> l.kl_div + u.kl_div,
     mae |-> l.mae,
     pred_loss |-> l.pred_loss,
     word_loss |-> l.word_loss + u.word_loss,
     topo_loss |-> l.topo_loss + u.topo_loss,
     assm_loss |-> l.assm_loss + u.assm_loss,
     wacc |-> (l.wacc + u.wacc) \div 2,
     tacc |-> (l.tacc + u.tacc) \div 2,
     sacc |-> (l.sacc + u.sacc) \div 2]

\* lines 536-545 (and 169-178 of test_loop): the labelled branch's values
compose_labelled(l) ==
    [loss |-> l.loss,
     kl_div |-> l.kl_div,
     mae |-> l.mae,
     pred_loss |-> l.pred_loss,
     word_loss |-> l.word_loss,
     topo_loss |-> l.topo_loss,
     assm_loss |-> l.assm_loss,
     wacc |-> l.wacc,
     tacc |-> l.tacc,
     sacc |-> l.sacc]

\* the array of lines 345-347: what one step (or one evaluated batch) adds
\* to meters
meter_vector(m) ==
    <<m.loss, m.kl_div, m.mae, m.word_loss, m.topo_loss, m.assm_loss,
      m.pred_loss, m.wacc * 100, m.tacc * 100, m.sacc * 100>>

\* line 338 with the division by 4 left out
next_alpha_undivided(loss, pred_loss) == loss \div pred_loss

\* line 338: next_alpha = (loss / 4) / pred_loss
next_alpha_of(loss, pred_loss) == (loss \div 4) \div pred_loss

\* a scheduler.step() that subtracts the rate instead of multiplying by it
scheduler_step_linear(rate, cur) == cur - rate

\* ExponentialLR.step(): the learning rate is multiplied by gamma
scheduler_step(rate, cur) == cur * rate

\* line 389 without the cap
anneal_beta_uncapped(b, step_beta, max_beta) == b + step_beta

\* line 389: beta = min(max_beta, beta + step_beta)
anneal_beta(b, step_beta, max_beta) == Min(max_beta, b + step_beta)

\* where a run that skips the final test pass goes once the epochs are done
after_epochs_done(mode) == "Done"

\* where the run goes once the epoch loop is exhausted: train_gen_pred
\* returns, train_gen_pred_supervised runs test_loop once more (lines 638-655)
after_epochs(mode) ==
    IF mode = "train_gen_pred_supervised" THEN "FinalTesting" ELSE "Done"

\* the file a checkpoint is written to (lines 376-379 and 585-588)
checkpoint_name(mode, step) ==
    [dir |-> "saved",
     file |-> IF mode = "train_gen_pred_supervised" THEN "model0.iter-" ELSE "model.iter-",
     step |-> step,
     content |-> "state_dict"]

NoOutput == [kind |-> "none"]

vae_train_skipped(training) == training

\* self.vae.train() (lines 290 and 512): the model's mode after the call
vae_train(training) == TRUE

\* self.vae.eval() (line 148): the model's mode after the call
vae_eval(training) == FALSE

pass_alpha_next(a, next_a) == next_a

\* the alpha argument of the test_loop calls (lines 400, 419, 609, 628, 647):
\* the variable alpha, not next_alpha
pass_alpha(a, next_a) == a

initial_step_zero(load_epoch) == 0

\* total_step = load_epoch (lines 286 and 508)
initial_step(load_epoch) == load_epoch

anneal_due_after(step, anneal_iter) == step >= anneal_iter

\* total_step % anneal_iter == 0 (lines 381 and 590)
anneal_due(step, anneal_iter) == step % anneal_iter = 0

meters_kept(m) == m

\* meters *= 0 (lines 373 and 582)
meters_reset(m) == [i \in 1..10 |-> m[i] * 0]

(***************************************************************************)
(* Gradients.  A gradient is a direction and a global norm; the statements *)
(* of a step act on the parameters' .grad in the order the code runs them. *)
(***************************************************************************)
ZeroGrad == [dir |-> "zero", norm |-> 0]

Grad(d, n) == [dir |-> d, norm |-> n]

\* loss.backward() adds the loss's gradient g to .grad; after a zero_grad
\* that is g itself (two non-zero gradients add up to at most the sum of
\* their norms, in a direction of their own unless they are parallel)
accumulate_grad(cur, g) ==
    IF cur.norm = 0 THEN g
    ELSE IF g.norm = 0 THEN cur
    ELSE Grad(IF cur.dir = g.dir THEN g.dir ELSE "mixed", cur.norm + g.norm)

clip_grad_norm_off(g, max_norm) == g

\* nn.utils.clip_grad_norm_(self.vae.parameters(), clip_norm) (lines 342 and
\* 551): every gradient is scaled by max_norm / total_norm when that is
\* below 1, which keeps the direction and makes the norm max_norm
clip_grad_norm(g, max_norm) ==
    IF g.norm > max_norm THEN Grad(g.dir, max_norm) ELSE g

step_statements_clip_late(mode) ==
    <<"next_batch", "vae.zero_grad", "forward_labelled">>
    \o (IF mode = "train_gen_pred" THEN <<"forward_unlabelled">> ELSE <<>>)
    \o <<"compose", "next_alpha", "optimizer.zero_grad", "backward",
         "optimizer.step", "clip_grad_norm_", "accumulate_meters">>

\* the statements of one iteration of the batch loop up to the update of
\* the meters, in the order of lines 292-347 (514-556)
step_statements(mode) ==
    <<"next_batch", "vae.zero_grad", "forward_labelled">>
    \o (IF mode = "train_gen_pred" THEN <<"forward_unlabelled">> ELSE <<>>)
    \o <<"compose", "next_alpha", "optimizer.zero_grad", "backward",
         "clip_grad_norm_", "optimizer.step", "accumulate_meters">>

RECURSIVE batch_statements(_)
batch_statements(n) ==
    IF n = 0 THEN <<>>
    ELSE <<"next_batch", "forward_labelled", "accumulate_meters">>
         \o batch_statements(n - 1)

test_loop_statements_training(n) ==
    <<"vae.eval", "no_grad">> \o batch_statements(n)
    \o <<"optimizer.zero_grad", "backward", "clip_grad_norm_", "optimizer.step",
         "divide", "print", "return">>

\* the statements of test_loop on a loader of n batches (lines 145-206)
test_loop_statements(n) ==
    <<"vae.eval", "no_grad">> \o batch_statements(n)
    \o <<"divide", "print", "return">>

\* the gradient side of the state: .grad, what the latest backward left,
\* what the latest optimizer.step() read, and the optimizer.step() calls
GradState == [grad |-> grad, unclipped |-> unclipped, consumed |-> consumed,
              steps |-> opt_steps]

\* the effect of one statement on the gradient side of the state, g being
\* the gradient of the loss and max_norm the clip_norm argument
run_statement(stmt, st, g, max_norm) ==
    CASE stmt \in {"vae.zero_grad", "optimizer.zero_grad"} ->
             [st EXCEPT !.grad = ZeroGrad]
      [] stmt = "backward" ->
             [st EXCEPT !.grad = accumulate_grad(st.grad, g),
                        !.unclipped = accumulate_grad(st.grad, g)]
      [] stmt = "clip_grad_norm_" ->
             [st EXCEPT !.grad = clip_grad_norm(st.grad, max_norm)]
      [] stmt = "optimizer.step" ->
             [st EXCEPT !.consumed = st.grad, !.steps = st.steps + 1]
      [] OTHER -> st

RECURSIVE run_statements(_, _, _, _)
run_statements(stmts, st, g, max_norm) ==
    IF stmts = <<>> THEN st
    ELSE run_statements(Tail(stmts), run_statement(Head(stmts), st, g, max_norm),
                        g, max_norm)

\* the progress line of lines 352-371
TrainLine(step, a, b, m) ==
    [kind |-> "line", phase |-> "Train", step |-> step, alpha |-> a, beta |-> b,
     meters |-> m, nan |-> FALSE, norms |-> TRUE, ret |-> 0]

\* meters /= num_iters of line 185 on the summed vector: numpy divides a
\* float array by 0 without raising, and 0.0 / 0 is nan in every entry (nan
\* is a flag here, v then holds no number)
eval_mean_by_print_iter(total, num_iters) ==
    [nan |-> FALSE, v |-> VecDiv(total, cfg.print_iter)]

eval_mean(total, num_iters) ==
    IF num_iters = 0
    THEN [nan |-> TRUE, v |-> Zeros]
    ELSE [nan |-> FALSE, v |-> VecDiv(total, num_iters)]

\* the summary line of lines 186-204 and the value test_loop returns
\* (meters[3], the word loss), m being what eval_mean gave
EvalLine(val_type, num_iters, a, b, m) ==
    [kind |-> "line", phase |-> val_type, step |-> num_iters, alpha |-> a,
     beta |-> b, meters |-> m.v, nan |-> m.nan, norms |-> FALSE, ret |-> m.v[4]]

\* a forward call self.vae(data, labels, alpha, beta) made by `caller`, with
\* the mode the model is in when it is made and the values it returned
Call(caller, data, labs, a, b, mode, out) ==
    [caller |-> caller, data |-> data, labels |-> labs, alpha |-> a, beta |-> b,
     training |-> mode, out |-> out]

\* how many of the latest steps' vectors `recent` keeps
Window == 3

KeepRecent(vs) ==
    IF Len(vs) > Window THEN SubSeq(vs, Len(vs) - Window + 1, Len(vs)) ELSE vs

\* the state in which the training function is entered with arguments c
EnterTraining(c) ==
    /\ cfg = c
    /\ tpc = "Uninitialized"
    /\ epoch = 0
    /\ batch = 0
    /\ total_step = 0
    /\ alpha = c.alpha
    /\ next_alpha = 0
    /\ beta = c.beta
    /\ lr = 0
    /\ meters = Zeros
    /\ training_mode = TRUE
    /\ opt_steps = 0
    /\ saved = {}
    /\ emitted = NoOutput
    /\ calls = <<>>
    /\ sched_steps = 0
    /\ recent = <<>>
    /\ passes = <<>>
    /\ grad = ZeroGrad
    /\ unclipped = ZeroGrad
    /\ consumed = ZeroGrad
    /\ ops = <<>>

\* lines 247-287 (469-509): next_alpha, parameter initialisation, optimizer,
\* scheduler and its first step, total_step, meters
Setup ==
    /\ tpc = "Uninitialized"
    /\ next_alpha' = alpha
    /\ lr' = scheduler_step(cfg.anneal_rate, cfg.lr)
    /\ sched_steps' = 1
    /\ total_step' = initial_step(cfg.load_epoch)
    /\ meters' = Zeros
    /\ tpc' = "EpochLoop"
    /\ emitted' = NoOutput
    /\ calls' = <<>>
    /\ ops' = <<>>
    /\ UNCHANGED <<cfg, epoch, batch, alpha, beta, training_mode, opt_steps,
                   saved, recent, passes, grad, unclipped, consumed>>
    /\ UNCHANGED prevars

\* lines 289-292 (511-514): the head of the epoch loop; self.vae.train()
\* and the first batch of the loader, or the loop is over
ForEpoch ==
    /\ tpc = "EpochLoop"
    /\ IF epoch < cfg.num_epochs
       THEN /\ training_mode' = vae_train(training_mode)
            /\ batch' = 0
            /\ tpc' = IF cfg.loader_len = 0 THEN "Validating" ELSE "Training"
       ELSE /\ tpc' = after_epochs(cfg.mode)
            /\ UNCHANGED <<training_mode, batch>>
    /\ emitted' = NoOutput
    /\ calls' = <<>>
    /\ ops' = <<>>
    /\ UNCHANGED <<cfg, epoch, total_step, alpha, next_alpha, beta, lr, meters,
                   opt_steps, saved, sched_steps, recent, passes, grad,
                   unclipped, consumed>>
    /\ UNCHANGED prevars

\* the body of the batch loop after the forward calls returned the step's
\* values m (lines 293-295 and 338-389; 515-517 and 547-598): m is what the
\* step's composition gave, fwd the forward calls it made, g the gradient
\* of the step's loss
StepBody(m, fwd, g) ==
    LET step == total_step + 1
        acc == VecAdd(meters, meter_vector(m))
        report == step % cfg.print_iter = 0
        anneal == anneal_due(step, cfg.anneal_iter)
        kl_anneal == step % cfg.kl_anneal_iter = 0 /\ step >= cfg.anneal_iter
        st == run_statements(step_statements(cfg.mode), GradState, g, cfg.clip_norm)
    IN  /\ total_step' = step
        /\ alpha' = next_alpha
        /\ calls' = fwd
        /\ ops' = step_statements(cfg.mode)
        /\ next_alpha' = next_alpha_of(m.loss, m.pred_loss)
        /\ grad' = st.grad
        /\ unclipped' = st.unclipped
        /\ consumed' = st.consumed
        /\ opt_steps' = st.steps
        /\ meters' = IF report THEN meters_reset(acc) ELSE acc
        /\ emitted' = IF report
                      THEN TrainLine(step, next_alpha, beta, VecDiv(acc, cfg.print_iter))
                      ELSE NoOutput
        /\ saved' = IF step % cfg.save_iter = 0
                    THEN saved \cup {checkpoint_name(cfg.mode, step)}
                    ELSE saved
        /\ lr' = IF anneal THEN scheduler_step(cfg.anneal_rate, lr) ELSE lr
        /\ sched_steps' = IF anneal THEN sched_steps + 1 ELSE sched_steps
        /\ beta' = IF kl_anneal
                   THEN anneal_beta(beta, cfg.step_beta, cfg.max_beta)
                   ELSE beta
        /\ recent' = KeepRecent(Append(recent, meter_vector(m)))
        /\ batch' = batch + 1
        /\ tpc' = IF batch + 1 = cfg.loader_len THEN "Validating" ELSE "Training"
        /\ UNCHANGED <<cfg, epoch, training_mode, passes>>
        /\ UNCHANGED prevars

\* one step of train_gen_pred (lines 292-389)
TrainStepJoint ==
    /\ tpc = "Training"
    /\ cfg.mode = "train_gen_pred"
    /\ batch < cfg.loader_len
    /\ \E l \in cfg.outs, u \in cfg.outs, g \in cfg.grads :
          StepBody(compose_joint(l, u),
                   <<Call("train", "labelled_data", "labels", next_alpha, beta, training_mode, l),
                     Call("train", "unlabelled_data", "None", next_alpha, beta, training_mode, u)>>,
                   g)

\* one step of train_gen_pred_supervised (lines 514-598)
TrainStepSupervised ==
    /\ tpc = "Training"
    /\ cfg.mode = "train_gen_pred_supervised"
    /\ batch < cfg.loader_len
    /\ \E l \in cfg.outs, g \in cfg.grads :
          StepBody(compose_labelled(l),
                   <<Call("train", "labelled_data", "labels", next_alpha, beta, training_mode, l)>>,
                   g)

\* test_loop (lines 126-206) called with val_type on a loader of n batches:
\* eval mode, one labelled forward per batch, the mean, the line, the return
TestLoop(val_type, loader, n) ==
    \E outs \in [1..n -> cfg.outs], g \in cfg.grads :
        LET total == VecSum([i \in 1..n |-> meter_vector(compose_labelled(outs[i]))])
            st == run_statements(test_loop_statements(n), GradState, g, cfg.clip_norm)
        IN  /\ training_mode' = vae_eval(training_mode)
            /\ calls' = [i \in 1..n |-> Call("test_loop", "labelled_data", "labels",
                                              pass_alpha(alpha, next_alpha), beta,
                                              vae_eval(training_mode), outs[i])]
            /\ ops' = test_loop_statements(n)
            /\ emitted' = EvalLine(val_type, n, pass_alpha(alpha, next_alpha), beta,
                                    eval_mean(total, n))
            /\ passes' = Append(passes, <<val_type, loader>>)
            /\ grad' = st.grad
            /\ unclipped' = st.unclipped
            /\ consumed' = st.consumed
            /\ opt_steps' = st.steps

\* lines 391-408 (600-617): the validation pass at the end of an epoch
ValidationPass ==
    /\ tpc = "Validating"
    /\ TestLoop("Validation", "val_loader", cfg.val_len)
    /\ tpc' = "Testing"
    /\ UNCHANGED <<cfg, epoch, batch, total_step, alpha, next_alpha, beta, lr,
                   meters, saved, sched_steps, recent>>
    /\ UNCHANGED prevars

\* lines 410-427 (619-636): the test pass at the end of an epoch
TestPass ==
    /\ tpc = "Testing"
    /\ TestLoop("Test", "test_loader", cfg.test_len)
    /\ epoch' = epoch + 1
    /\ tpc' = "EpochLoop"
    /\ UNCHANGED <<cfg, batch, total_step, alpha, next_alpha, beta, lr,
                   meters, saved, sched_steps, recent>>
    /\ UNCHANGED prevars

\* lines 638-655: the test pass of train_gen_pred_supervised after the loop
FinalTestPass ==
    /\ tpc = "FinalTesting"
    /\ TestLoop("Test", "test_loader", cfg.test_len)
    /\ tpc' = "Done"
    /\ UNCHANGED <<cfg, epoch, batch, total_step, alpha, next_alpha, beta, lr,
                   meters, saved, sched_steps, recent>>
    /\ UNCHANGED prevars

NextTrain ==
    \/ Setup
    \/ ForEpoch
    \/ TrainStepJoint
    \/ TrainStepSupervised
    \/ ValidationPass
    \/ TestPass
    \/ FinalTestPass

(***************************************************************************)
(* The calls the model explores.                                           *)
(***************************************************************************)
\* (beta, max_beta, step_beta) as configured: a schedule that reaches its
\* cap, one that starts at it, one that starts above it, one that steps down
BetaSchedules == {<<0, 3, 2>>, <<1, 1, 1>>, <<3, 2, 1>>, <<0, 2, -1>>}

AnnealIters == {1, 3}

KlAnnealIters == {1, 2}

AnnealRates == {2, 3}

LearningRates == {1, 5}

PrintIters == {1, 2, 3}

SaveIters == {1, 2}

\* the arguments of a call: mode m, load_epoch s, num_epochs e, a loader of n
\* batches, beta schedule b, anneal_iter ai, kl_anneal_iter ki, anneal_rate r,
\* lr l, print_iter p, save_iter sv, and the values the model can return
Config(m, s, e, n, b, ai, ki, r, l, p, sv, outs) ==
    [mode |-> m, load_epoch |-> s, num_epochs |-> e,
     loader_len |-> n, val_len |-> 1, test_len |-> 1, outs |-> outs,
     lr |-> l, anneal_rate |-> r, alpha |-> 5,
     beta |-> b[1], max_beta |-> b[2], step_beta |-> b[3],
     anneal_iter |-> ai, kl_anneal_iter |-> ki,
     print_iter |-> p, save_iter |-> sv,
     clip_norm |-> 1, grads |-> {Grad("d1", 10)}]

\* the same call with a validation loader of vl and a test loader of tl
\* batches
WithEval(c, vl, tl) == [c EXCEPT !.val_len = vl, !.test_len = tl]

\* the same call with clip_norm cn and the gradients gs for the loss
WithClip(c, cn, gs) == [c EXCEPT !.clip_norm = cn, !.grads = gs]

\* runs that vary the schedules (beta, learning rate) over one model output
SchedConfigs ==
    {Config(m, s, e, n, b, ai, ki, r, l, 2, 2, {OutA}) :
        m \in Modes, s \in 0..MaxStart, e \in 0..MaxEpochs, n \in 0..MaxBatches,
        b \in BetaSchedules, ai \in AnnealIters, ki \in KlAnnealIters,
        r \in AnnealRates, l \in LearningRates}

\* runs that vary the model's outputs and the reporting intervals over one
\* schedule
ReportConfigs ==
    {Config(m, s, e, n, <<0, 2, 1>>, 2, 1, 2, 1, p, sv, {OutA, OutB}) :
        m \in Modes, s \in 0..MaxStart, e \in 0..MaxEpochs, n \in 0..MaxBatches,
        p \in PrintIters, sv \in SaveIters}

\* runs that vary the evaluation loaders, empty ones included
EvalConfigs ==
    {WithEval(Config(m, 0, e, n, <<0, 2, 1>>, 2, 1, 2, 1, 2, 2, {OutA, OutB}), vl, tl) :
        m \in Modes, e \in 0..MaxEpochs, n \in {0, 1},
        vl \in 0..MaxEvalBatches, tl \in 0..MaxEvalBatches}

ClipNorms == {1, 5}

\* gradients of norm below, at and above the clip norms, in two directions
Grads == {Grad("d1", 10), Grad("d2", 5), Grad("d1", 3), Grad("d2", 1)}

\* runs that vary clip_norm and the gradient of each step's loss
ClipConfigs ==
    {WithClip(Config(m, s, e, n, <<0, 2, 1>>, 2, 1, 2, 1, 2, 2, {OutA}), cn, Grads) :
        m \in Modes, s \in 0..MaxStart, e \in 0..MaxEpochs, n \in 0..MaxBatches,
        cn \in ClipNorms}

\* runs that vary the starting step and the lengths of the run over one
\* schedule and one model output
TermConfigs ==
    {Config(m, s, e, n, <<0, 2, 1>>, 2, 1, 2, 1, 2, 2, {OutA}) :
        m \in Modes, s \in 0..MaxStart, e \in 0..MaxEpochs, n \in 0..MaxBatches}

\* the preprocessing machine while a training run is explored
PipelineIdle ==
    /\ pc = "idle"
    /\ list_smiles = <<>>
    /\ chunk_no = 0
    /\ slots = <<>>
    /\ vocab_lists = <<>>
    /\ vocab = <<>>
    /\ preprocessed = <<>>
    /\ processed_smiles = <<>>
    /\ processed_idxs = <<>>
    /\ labels = <<>>
    /\ processed_labels = <<>>
    /\ completed = <<>>
    /\ split = NoSplit

\* the training machine while the preprocessing machine is explored
TrainIdle == EnterTraining(Config("train_gen_pred", 0, 0, 0, <<0, 2, 1>>,
                                  2, 1, 2, 1, 2, 2, {OutA}))

InitPre == InitPipeline /\ TrainIdle

SpecPre == InitPre /\ [][NextPre]_vars

\* the experiment script once the runner is constructed: what preprocess
\* returned for a list, as the processed_smiles.xml and processed_idxs.xml it
\* reads hold it (run_experiment.py lines 116-120)
InitSplit ==
    /\ pc = "constructed"
    /\ list_smiles \in UNION {[1..n -> RawStructures] : n \in 0..MaxLen}
    /\ chunk_no = Len(chunks)
    /\ slots = <<>>
    /\ vocab_lists = [k \in 1..Len(list_smiles) |-> get_vocab(list_smiles[k])]
    /\ vocab \in vocab_result(vocab_lists)
    /\ preprocessed = [k \in 1..Len(list_smiles) |-> tensorize(list_smiles[k], TRUE)]
    /\ processed_idxs = nonzero([k \in 1..Len(list_smiles) |-> preprocessed[k] # None])
    /\ processed_smiles = fancy_index(preprocessed, processed_idxs)
    /\ labels = <<>>
    /\ processed_labels = <<>>
    /\ completed = [k \in 1..Len(list_smiles) |-> k]
    /\ split = NoSplit
    /\ TrainIdle

SpecSplit == InitSplit /\ [][NextSplit]_vars

InitFail == InitPipelineOver(FailStructures) /\ TrainIdle

SpecFail == InitFail /\ [][NextPool]_vars

InitSched == PipelineIdle /\ \E c \in SchedConfigs : EnterTraining(c)

SpecSched == InitSched /\ [][NextTrain]_vars

InitReport == PipelineIdle /\ \E c \in ReportConfigs : EnterTraining(c)

SpecReport == InitReport /\ [][NextTrain]_vars

InitEval == PipelineIdle /\ \E c \in EvalConfigs : EnterTraining(c)

SpecEval == InitEval /\ [][NextTrain]_vars

InitClip == PipelineIdle /\ \E c \in ClipConfigs : EnterTraining(c)

SpecClip == InitClip /\ [][NextTrain]_vars

InitTerm == PipelineIdle /\ \E c \in TermConfigs : EnterTraining(c)

\* the training function is straight-line sequential code on one thread:
\* whenever a statement can run, it does
SpecTermFair == InitTerm /\ [][NextTrain]_vars /\ WF_vars(NextTrain)

(***************************************************************************)
(* Claims about the preprocessing machine (checked under SpecPre).         *)
(***************************************************************************)
PreprocessReturned == pc \in {"constructed", "labels_loaded", "labels_processed"}

VocabularyBuilt == pc # "build_vocabulary"

\* the 0-based positions of the input whose worker result is not the sentinel
Survivors == {p \in 0..(Len(list_smiles) - 1) : tensorize(At(list_smiles, p), TRUE) # None}

StrictlyIncreasing(s) == \A i, j \in 1..Len(s) : i < j => s[i] < s[j]

\* C1: whatever the input of length N and whichever structures fail, what
\* preprocess returns satisfies len(processed) = len(index_map) <= N, index_map
\* is strictly increasing and each of its entries lies in [0, N).
C1_IndexMapWellFormed ==
    PreprocessReturned =>
        /\ Len(processed_smiles) = Len(processed_idxs)
        /\ Len(processed_idxs) <= Len(list_smiles)
        /\ StrictlyIncreasing(processed_idxs)
        /\ \A i \in 1..Len(processed_idxs) :
              processed_idxs[i] \in 0..(Len(list_smiles) - 1)

\* preprocess has returned for an input of more than one chunk in which a
\* structure failed and structures of two different chunks survived
C1_Witness ==
    /\ PreprocessReturned
    /\ Len(list_smiles) > ChunkSize
    /\ Len(processed_idxs) < Len(list_smiles)
    /\ \E i, j \in 1..Len(processed_idxs) :
          processed_idxs[i] < ChunkSize /\ processed_idxs[j] >= ChunkSize

\* C2: index_map is exactly the ascending list of the original positions whose
\* worker result was not the sentinel, and processed[i] is the worker result for
\* raw[index_map[i]], also for inputs longer than one chunk; for 3 structures of
\* which only position 1 fails, index_map = [0, 2] and processed has length 2.
C2_IndexMapExact ==
    PreprocessReturned =>
        /\ StrictlyIncreasing(processed_idxs)
        /\ Range(processed_idxs) = Survivors
        /\ Len(processed_smiles) = Len(processed_idxs)
        /\ \A i \in 1..Len(processed_idxs) :
              processed_smiles[i] = tensorize(At(list_smiles, processed_idxs[i]), TRUE)
        /\ (Len(list_smiles) = 3 /\ Survivors = {0, 2}) =>
              (processed_idxs = <<0, 2>> /\ Len(processed_smiles) = 2)

\* the scenario: 3 structures, the one at position 1 fails, and the two
\* survivors (different structures) sit in different chunks
C2_Witness ==
    /\ PreprocessReturned
    /\ Len(list_smiles) = 3
    /\ Survivors = {0, 2}
    /\ list_smiles[1] # list_smiles[3]
    /\ processed_idxs = <<0, 2>>
    /\ Len(processed_smiles) = 2

\* C3: get_processed_labels(labels), after preprocess and on labels aligned
\* with the raw input, returns len(index_map) values, the i-th being
\* labels[index_map[i]], and modifies neither labels nor index_map.
C3_ProcessedLabels ==
    /\ [](pc = "labels_processed" =>
            /\ Len(labels) = Len(list_smiles)
            /\ Len(processed_labels) = Len(processed_idxs)
            /\ \A i \in 1..Len(processed_idxs) :
                  processed_labels[i] = At(labels, processed_idxs[i]))
    /\ [][(pc = "labels_loaded" /\ pc' = "labels_processed") =>
             (labels' = labels /\ processed_idxs' = processed_idxs)]_vars

\* labels were re-indexed after a structure with a different label, ahead of
\* a survivor, was dropped
C3_Witness ==
    /\ pc = "labels_processed"
    /\ Len(processed_idxs) >= 1
    /\ processed_idxs[1] # 0
    /\ labels[1] # At(labels, processed_idxs[1])
    /\ processed_labels[1] = At(labels, processed_idxs[1])

\* the cluster symbols of the structures the MolTree constructor accepted
DecomposedSymbols ==
    UNION {{MolTreeOf(list_smiles[p]).nodes[k].smiles :
                k \in 1..Len(MolTreeOf(list_smiles[p]).nodes)} :
           p \in {q \in 1..Len(list_smiles) :
                     MolTreeOf(list_smiles[q]).raises # "MolTree"}}

\* C4: the vocabulary build_vocabulary returns has no duplicate entry, and each
\* of its entries is the symbol of a node of a structure of the input that
\* decomposed; a structure whose decomposition fails contributes nothing.
C4_Vocabulary ==
    VocabularyBuilt =>
        /\ \A i, j \in 1..Len(vocab) : i # j => vocab[i] # vocab[j]
        /\ Range(vocab) \subseteq DecomposedSymbols

\* a vocabulary built from an input with a failing structure and with a symbol
\* that occurs more than once
C4_Witness ==
    /\ VocabularyBuilt
    /\ "XX" \in Range(list_smiles)
    /\ vocab # <<>>
    /\ Len(Flatten(vocab_lists)) > Len(vocab)

\* C5: in every tree of processed, every node's label is one of the node's
\* assembly candidates, whether or not enumeration produced it.
C5_LabelAmongCandidates ==
    PreprocessReturned =>
        \A i \in 1..Len(processed_smiles) :
            \A k \in 1..Len(processed_smiles[i].nodes) :
                processed_smiles[i].nodes[k].label
                    \in Range(processed_smiles[i].nodes[k].cands)

\* processed holds a tree with a node whose label enumeration had left out
C5_Witness ==
    /\ PreprocessReturned
    /\ \E i \in 1..Len(processed_smiles) :
          \E k \in 1..Len(processed_smiles[i].nodes) :
              /\ processed_smiles[i].nodes[k].label
                    \notin Range(processed_smiles[i].nodes[k].enumerated)
              /\ processed_smiles[i].nodes[k].label
                    \in Range(processed_smiles[i].nodes[k].cands)

(***************************************************************************)
(* Claims about the schedules of a training run (checked under SpecSched). *)
(***************************************************************************)
\* a configuration whose beta starts at or below its cap and steps upwards
SaneBeta == cfg.beta <= cfg.max_beta /\ cfg.step_beta >= 0

\* the transition is a training step that ends on a global step number that
\* is a multiple of kl_anneal_iter and at least anneal_iter
KlAnnealStep ==
    /\ tpc = "Training"
    /\ total_step' = total_step + 1
    /\ total_step' % cfg.kl_anneal_iter = 0
    /\ total_step' >= cfg.anneal_iter

\* C6 as stated: in every training run, whatever beta, max_beta, step_beta,
\* anneal_iter, kl_anneal_iter and starting step are configured, beta never
\* decreases from a step to the next, never exceeds max_beta, and changes only
\* at the end of a step whose global step number is a multiple of
\* kl_anneal_iter and at least anneal_iter.
C6_BetaAnyConfig ==
    /\ [](beta <= cfg.max_beta)
    /\ [][/\ beta' >= beta
          /\ beta' # beta => KlAnnealStep]_vars

\* C6 as amended: in every training run, beta changes only at the end of a
\* step whose global step number is a multiple of kl_anneal_iter and at least
\* anneal_iter; and when the configured beta is at most max_beta and step_beta
\* is not negative, beta never decreases and never exceeds max_beta.
C6_BetaSaneConfig ==
    /\ [](SaneBeta => beta <= cfg.max_beta)
    /\ [][/\ SaneBeta => beta' >= beta
          /\ beta' # beta => KlAnnealStep]_vars

\* a run whose first two steps were held back by anneal_iter and whose beta
\* then rose and was cut at the cap
C6_Witness ==
    /\ SaneBeta
    /\ cfg.kl_anneal_iter = 1
    /\ cfg.anneal_iter = 3
    /\ cfg.load_epoch = 0
    /\ total_step = 4
    /\ cfg.beta + 2 * cfg.step_beta > cfg.max_beta
    /\ beta = cfg.max_beta
    /\ beta > cfg.beta

\* C7: once the optimizer and the scheduler exist, the learning rate is the
\* configured lr times anneal_rate to the power of the number of scheduler
\* steps applied so far (the one of line 268 included).
C7_LearningRate ==
    tpc # "Uninitialized" => lr = cfg.lr * Pow(cfg.anneal_rate, sched_steps)

\* the scheduler stepped at least twice after its first step
C7_Witness ==
    /\ sched_steps >= 3
    /\ cfg.anneal_rate = 3
    /\ cfg.lr = 5
    /\ lr = 135

(***************************************************************************)
(* Claims about the steps, the reports and the passes of a training run    *)
(* (checked under SpecReport).                                             *)
(***************************************************************************)
\* training steps the run has executed
StepsDone == total_step - cfg.load_epoch

\* the last action was a training step
AfterTrainStep == calls # <<>> /\ calls[1].caller = "train"

\* C8: in both modes the alpha passed to the model at the first step of the
\* run is the configured alpha, and the alpha passed at any later step is
\* (loss / 4) / pred_loss of the step before it, also when the step before it
\* was the last one of the previous epoch.
C8_AlphaLag ==
    AfterTrainStep =>
        \A i \in 1..Len(calls) :
            calls[i].alpha =
                IF StepsDone = 1
                THEN cfg.alpha
                ELSE (recent[Len(recent) - 1][1] \div 4) \div recent[Len(recent) - 1][7]

\* the first step of the second epoch, passed an alpha that the previous
\* step's totals give and the step's own totals would not
C8_Witness ==
    /\ AfterTrainStep
    /\ epoch = 1
    /\ batch = 1
    /\ StepsDone >= 2
    /\ calls[1].alpha = (recent[Len(recent) - 1][1] \div 4) \div recent[Len(recent) - 1][7]
    /\ calls[1].alpha # (recent[Len(recent)][1] \div 4) \div recent[Len(recent)][7]
    /\ calls[1].alpha # cfg.alpha

\* the last n entries of s
LastN(s, n) == SubSeq(s, Len(s) - n + 1, Len(s))

\* the last action was a training step that printed its progress line
Reported == emitted.kind = "line" /\ emitted.phase = "Train"

\* C9: at every training step whose global step number is a multiple of
\* print_iter, whatever the starting step and the number of batches per epoch,
\* the values reported are the arithmetic mean of the metric vectors of exactly
\* the print_iter most recent steps, and Meters are all zeros afterwards.
C9_ReportedIsMean ==
    Reported =>
        /\ StepsDone >= cfg.print_iter
        /\ \A i \in 1..10 :
              emitted.meters[i] * cfg.print_iter
                  = VecSum(LastN(recent, cfg.print_iter))[i]
        /\ meters = Zeros

\* what holds instead: the statement of C9 for the runs whose starting step
\* is a multiple of print_iter
C9_ReportedIsMeanWhenAligned ==
    (Reported /\ cfg.load_epoch % cfg.print_iter = 0) =>
        /\ StepsDone >= cfg.print_iter
        /\ \A i \in 1..10 :
              emitted.meters[i] * cfg.print_iter
                  = VecSum(LastN(recent, cfg.print_iter))[i]
        /\ meters = Zeros

RECURSIVE EpochPasses(_)
\* the passes e completed epochs leave: a validation pass, then a test pass,
\* per epoch
EpochPasses(e) ==
    IF e = 0 THEN <<>>
    ELSE EpochPasses(e - 1) \o <<<<"Validation", "val_loader">>, <<"Test", "test_loader">>>>

\* C10: in both modes each epoch is followed by exactly one pass over the
\* validation set and then exactly one over the test set, before the next
\* epoch's first step or Done; train_gen_pred_supervised runs exactly one more
\* test pass after the last epoch; so E epochs leave E validation passes and E
\* (train_gen_pred) or E + 1 (train_gen_pred_supervised) test passes.
C10_PassesPerEpoch ==
    /\ tpc = "Uninitialized" => passes = <<>>
    /\ tpc \in {"EpochLoop", "Training", "Validating"} =>
          (epoch <= cfg.num_epochs /\ passes = EpochPasses(epoch))
    /\ tpc \in {"Training", "Validating", "Testing"} => epoch < cfg.num_epochs
    /\ tpc = "Testing" =>
          passes = Append(EpochPasses(epoch), <<"Validation", "val_loader">>)
    /\ tpc = "FinalTesting" =>
          (epoch = cfg.num_epochs /\ passes = EpochPasses(cfg.num_epochs))
    /\ tpc = "Done" =>
          /\ epoch = cfg.num_epochs
          /\ passes = IF cfg.mode = "train_gen_pred_supervised"
                      THEN Append(EpochPasses(cfg.num_epochs), <<"Test", "test_loader">>)
                      ELSE EpochPasses(cfg.num_epochs)

\* a finished labelled-only run of two epochs of training steps: two
\* validation passes and three test passes
C10_Witness ==
    /\ tpc = "Done"
    /\ cfg.mode = "train_gen_pred_supervised"
    /\ cfg.num_epochs = 2
    /\ StepsDone = 2 * cfg.loader_len
    /\ cfg.loader_len >= 1
    /\ Len(passes) = 5

(***************************************************************************)
(* Claims about the Evaluator (checked under SpecEval).                    *)
(***************************************************************************)
\* the last action was a test_loop pass
AfterPass == ops # <<>> /\ ops[1] = "vae.eval"

\* how often statement x occurs in the statements ss
Count(ss, x) == Cardinality({i \in DOMAIN ss : ss[i] = x})

\* the number of batches of the loader the latest pass was given
PassLoaderLen ==
    IF passes[Len(passes)][2] = "val_loader" THEN cfg.val_len ELSE cfg.test_len

\* the sum of the metric vectors of the values the latest action's forward
\* calls returned
CallsTotal == VecSum([i \in DOMAIN calls |-> meter_vector(calls[i].out)])

\* what every pass does whatever its loader: one pull and one labelled
\* forward per batch of the loader, and a line that counts the batches
PassShape ==
    /\ Count(ops, "next_batch") = PassLoaderLen
    /\ Len(calls) = PassLoaderLen
    /\ \A i \in DOMAIN calls :
          /\ calls[i].caller = "test_loop"
          /\ calls[i].data = "labelled_data"
          /\ calls[i].labels = "labels"
    /\ Count(ops, "forward_unlabelled") = 0
    /\ emitted.step = PassLoaderLen

\* the line's values and the returned value are the batch mean
PassMean ==
    /\ ~emitted.nan
    /\ \A i \in 1..10 : emitted.meters[i] * PassLoaderLen = CallsTotal[i]
    /\ emitted.ret * PassLoaderLen = CallsTotal[4]

\* C11 as stated: test_loop iterates the loader exactly once, runs only the
\* labelled forward on each batch, sums the ten-metric vectors, divides by the
\* number of batches and returns the mean word loss, for every loader, one
\* that yields no batch included.
C11_MeanForEveryLoader == AfterPass => (PassShape /\ PassMean)

\* C11: test_loop iterates the loader exactly once, runs only the labelled
\* forward on each batch, sums the ten-metric vectors and divides by the
\* number of batches; for a loader of at least one batch the line shows the
\* means and the mean word loss is returned, for a loader that yields no batch
\* no forward is run and every value shown and the value returned are nan.
C11_MeanForNonEmptyLoader ==
    AfterPass =>
        /\ PassShape
        /\ PassLoaderLen >= 1 => PassMean
        /\ PassLoaderLen = 0 => (emitted.nan /\ calls = <<>>)

\* a pass over two batches on which the model returned different values
C11_Witness ==
    /\ AfterPass
    /\ PassLoaderLen = 2
    /\ calls[1].out # calls[2].out
    /\ emitted.ret * 2 = calls[1].out.word_loss + calls[2].out.word_loss

\* C12: a test_loop pass changes neither the model's parameters nor the
\* optimizer: the parameters and the optimizer's state (no optimizer.step(),
\* no change of .grad), the learning rate, alpha, next_alpha, beta, total_step
\* and the training function's meters are after the pass what they were
\* before it.
C12_PassFrame ==
    [][passes' # passes =>
          UNCHANGED <<opt_steps, grad, unclipped, consumed, lr, sched_steps,
                      alpha, next_alpha, beta, total_step, meters>>]_vars

\* a pass over a non-empty loader made after a step has updated the
\* parameters and while the training meters hold a step's values
C12_Witness ==
    /\ AfterPass
    /\ PassLoaderLen >= 1
    /\ opt_steps >= 1
    /\ consumed # ZeroGrad
    /\ meters # Zeros

(***************************************************************************)
(* Claims about checkpoints and reports (checked under SpecReport).        *)
(***************************************************************************)
\* the steps of the run so far at which a checkpoint is due
SaveSteps ==
    {s \in (cfg.load_epoch + 1)..total_step : s % cfg.save_iter = 0}

\* C13: in both training modes a checkpoint is written at exactly the steps
\* whose global step number is a multiple of save_iter, once per such step and
\* at no other step; the file is <save_dir>/model.iter-<global_step> and holds
\* the model's parameters only.
C13_Checkpoints ==
    tpc # "Uninitialized" =>
        saved = {[dir |-> "saved", file |-> "model.iter-", step |-> s,
                  content |-> "state_dict"] : s \in SaveSteps}

\* what holds of the checkpoints in both modes: the steps they are written
\* at and their content, and the file name in train_gen_pred
C13_CheckpointSteps ==
    tpc # "Uninitialized" =>
        /\ {f.step : f \in saved} = SaveSteps
        /\ Cardinality(saved) = Cardinality(SaveSteps)
        /\ \A f \in saved : f.dir = "saved" /\ f.content = "state_dict"
        /\ cfg.mode = "train_gen_pred" => \A f \in saved : f.file = "model.iter-"

(***************************************************************************)
(* Claims about the gradient of a step (checked under SpecClip).           *)
(***************************************************************************)
\* C14: in every training step the gradient the optimizer step consumes has
\* global norm min(unclipped norm, clip_norm) and the direction of the
\* unclipped gradient: with clip_norm 1 a gradient of norm 10 is consumed with
\* norm 1, and a gradient whose norm is at most clip_norm is consumed
\* unchanged.
C14_ClippedGradient ==
    AfterTrainStep =>
        /\ consumed.norm = Min(unclipped.norm, cfg.clip_norm)
        /\ consumed.dir = unclipped.dir
        /\ unclipped.norm <= cfg.clip_norm => consumed = unclipped

\* a step with clip_norm 1 whose loss had a gradient of norm 10, consumed
\* with norm 1 in the same direction
C14_Witness ==
    /\ AfterTrainStep
    /\ cfg.clip_norm = 1
    /\ unclipped = Grad("d1", 10)
    /\ consumed = Grad("d1", 1)

(***************************************************************************)
(* Claims about the meters across reports and passes (checked under        *)
(* SpecEval).                                                              *)
(***************************************************************************)
\* the number of steps the run has made since the last step whose number is
\* a multiple of print_iter
StepsSinceReport == Min(total_step % cfg.print_iter, StepsDone)

\* C15 as stated: the meters are all zeros right after every print-interval
\* report and right after every validation or test pass.
C15_ZeroAfterReportAndPass == (Reported \/ AfterPass) => meters = Zeros

\* C15: the training function's meters are all zeros right after every
\* print-interval report; a validation or test pass does not reset them, after
\* it they hold the sum of the metric vectors of the steps made since the last
\* report.
C15_ZeroAfterReport ==
    /\ Reported => meters = Zeros
    /\ AfterPass => meters = VecSum(LastN(recent, StepsSinceReport))

\* a report at the second step of a run whose first step was followed by a
\* validation and a test pass: the report shows non-zero values and leaves
\* the meters zero
C15_Witness ==
    /\ Reported
    /\ StepsDone = 2
    /\ Len(passes) = 2
    /\ emitted.meters # Zeros
    /\ meters = Zeros

(***************************************************************************)
(* Claims about the order of a step's statements (checked under SpecClip). *)
(***************************************************************************)
\* the place of statement x in the statements the last action ran
Pos(x) == CHOOSE i \in DOMAIN ops : ops[i] = x

\* the statements in xs all ran, each once, in the order of xs
RanInOrder(xs) ==
    /\ \A i \in DOMAIN xs : Count(ops, xs[i]) = 1
    /\ \A i \in DOMAIN xs : \A j \in DOMAIN xs : i < j => Pos(xs[i]) < Pos(xs[j])

\* C16: a training step is one unit with a fixed order: one batch is pulled,
\* then the forward pass(es), the composition of the loss, the zeroing of the
\* gradients, the backward pass, the clipping and exactly one optimizer step,
\* all before the next batch is pulled; no test_loop pass and no other step's
\* update comes between a step's forward and its optimizer step, and a pass
\* makes no update.
C16_StepOrder ==
    /\ tpc # "Uninitialized" => opt_steps = StepsDone
    /\ AfterTrainStep =>
          /\ ops[1] = "next_batch"
          /\ RanInOrder(<<"next_batch", "forward_labelled", "compose",
                          "optimizer.zero_grad", "backward", "clip_grad_norm_",
                          "optimizer.step">>)
          /\ Count(ops, "forward_unlabelled")
                = (IF cfg.mode = "train_gen_pred" THEN 1 ELSE 0)
          /\ cfg.mode = "train_gen_pred" =>
                /\ Pos("forward_labelled") < Pos("forward_unlabelled")
                /\ Pos("forward_unlabelled") < Pos("compose")
          /\ Count(ops, "vae.eval") = 0
          /\ Len(calls) = Count(ops, "forward_labelled") + Count(ops, "forward_unlabelled")
    /\ AfterPass =>
          /\ Count(ops, "optimizer.step") = 0
          /\ Count(ops, "backward") = 0

\* the second step of an epoch of train_gen_pred, made right after the first:
\* two optimizer steps for two batches, the last one fed by this step's
\* gradient
C16_Witness ==
    /\ AfterTrainStep
    /\ cfg.mode = "train_gen_pred"
    /\ batch = 2
    /\ opt_steps = 2
    /\ Len(calls) = 2
    /\ consumed.dir = unclipped.dir

(***************************************************************************)
(* Claims about the composition of a step's values (checked under          *)
(* SpecReport).                                                            *)
(***************************************************************************)
\* the metric vector of the latest step
StepVector == recent[Len(recent)]

\* C17: in train_gen_pred the step's loss, KL and word, topology and assembly
\* losses are the sums of the two branches' values, MAE and prediction loss
\* are the labelled branch's alone and each accuracy is the average of the two
\* branches'; in train_gen_pred_supervised every value is the labelled
\* branch's; the unlabelled forward is called without labels and with the
\* alpha and beta of the labelled forward.
C17_Composition ==
    AfterTrainStep =>
        LET l == calls[1].out
            u == calls[2].out
            v == StepVector
        IN  /\ calls[1].data = "labelled_data" /\ calls[1].labels = "labels"
            /\ cfg.mode = "train_gen_pred" =>
                  /\ Len(calls) = 2
                  /\ calls[2].data = "unlabelled_data"
                  /\ calls[2].labels = "None"
                  /\ calls[2].alpha = calls[1].alpha
                  /\ calls[2].beta = calls[1].beta
                  /\ v[1] = l.loss + u.loss
                  /\ v[2] = l.kl_div + u.kl_div
                  /\ v[3] = l.mae
                  /\ v[4] = l.word_loss + u.word_loss
                  /\ v[5] = l.topo_loss + u.topo_loss
                  /\ v[6] = l.assm_loss + u.assm_loss
                  /\ v[7] = l.pred_loss
                  /\ 2 * v[8] = (l.wacc + u.wacc) * 100
                  /\ 2 * v[9] = (l.tacc + u.tacc) * 100
                  /\ 2 * v[10] = (l.sacc + u.sacc) * 100
            /\ cfg.mode = "train_gen_pred_supervised" =>
                  /\ Len(calls) = 1
                  /\ v = <<l.loss, l.kl_div, l.mae, l.word_loss, l.topo_loss,
                           l.assm_loss, l.pred_loss, l.wacc * 100, l.tacc * 100,
                           l.sacc * 100>>

\* a step of train_gen_pred whose two branches returned different values
C17_Witness ==
    /\ AfterTrainStep
    /\ cfg.mode = "train_gen_pred"
    /\ calls[1].out = OutA
    /\ calls[2].out = OutB
    /\ StepVector[1] = 144
    /\ StepVector[3] = 6
    /\ StepVector[8] = 2400

(***************************************************************************)
(* Claims about the schedules and the step counter (checked under          *)
(* SpecSched).                                                             *)
(***************************************************************************)
\* the steps of the run so far whose number is a multiple of anneal_iter
AnnealSteps ==
    {s \in (cfg.load_epoch + 1)..total_step : s % cfg.anneal_iter = 0}

\* C18: the learning-rate schedule is advanced once before the first step
\* and then once at the end of every step whose global step number is a
\* multiple of anneal_iter, and at no other time: after n steps from the
\* starting step s0 the number of decay steps applied is
\* 1 + |{s : s0 < s <= s0 + n, s mod anneal_iter = 0}|, and it never decreases.
C18_DecaySteps ==
    /\ [](/\ tpc = "Uninitialized" => sched_steps = 0
          /\ tpc # "Uninitialized" =>
                /\ total_step = cfg.load_epoch + StepsDone
                /\ sched_steps = 1 + Cardinality(AnnealSteps))
    /\ [][/\ sched_steps' >= sched_steps
          /\ sched_steps' # sched_steps =>
                \/ tpc = "Uninitialized"
                \/ /\ total_step' = total_step + 1
                   /\ total_step' % cfg.anneal_iter = 0
                   /\ sched_steps' = sched_steps + 1]_vars

\* four steps from starting step 1 with anneal_iter 3: the decay before the
\* first step and the one at step 3, none at steps 2, 4 and 5
C18_Witness ==
    /\ cfg.load_epoch = 1
    /\ cfg.anneal_iter = 3
    /\ StepsDone = 4
    /\ sched_steps = 2
    /\ lr = cfg.lr * cfg.anneal_rate * cfg.anneal_rate

(***************************************************************************)
(* Termination and the step counter (checked under SpecTermFair).          *)
(***************************************************************************)
\* C19: with a loader of B batches and num_epochs = E a run ends in Done
\* after exactly E * B steps; total_step starts at the starting step, grows by
\* exactly 1 per batch, is never reset or lowered at an epoch boundary or by a
\* test_loop pass, and is the starting step plus E * B at Done.
C19_Termination ==
    /\ <>(tpc = "Done")
    /\ [](/\ (tpc = "EpochLoop" /\ epoch = 0) => total_step = cfg.load_epoch
          /\ tpc = "Done" =>
                /\ total_step = cfg.load_epoch + cfg.num_epochs * cfg.loader_len
                /\ opt_steps = cfg.num_epochs * cfg.loader_len)
    /\ [][tpc # "Uninitialized" =>
             \/ total_step' = total_step
             \/ /\ total_step' = total_step + 1
                /\ batch' = batch + 1
                /\ epoch' = epoch
                /\ passes' = passes]_vars

\* a run of two epochs of two batches from starting step 1, at Done
C19_Witness ==
    /\ tpc = "Done"
    /\ cfg.load_epoch = 1
    /\ cfg.num_epochs = 2
    /\ cfg.loader_len = 2
    /\ total_step = 5
    /\ opt_steps = 4

(***************************************************************************)
(* Resumed runs against runs from step 0 (checked under SpecSched).        *)
(***************************************************************************)
\* beta after step s of a run of the same configuration started at step 0
RECURSIVE UninterruptedBeta(_)
UninterruptedBeta(s) ==
    IF s = 0 THEN cfg.beta
    ELSE IF s % cfg.kl_anneal_iter = 0 /\ s >= cfg.anneal_iter
         THEN Min(cfg.max_beta, UninterruptedBeta(s - 1) + cfg.step_beta)
         ELSE UninterruptedBeta(s - 1)

\* the learning rate after step s of a run of the same configuration started
\* at step 0
UninterruptedLr(s) ==
    cfg.lr * Pow(cfg.anneal_rate,
                 1 + Cardinality({t \in 1..s : t % cfg.anneal_iter = 0}))

\* C20: a run started at a non-zero starting step L takes its schedule state
\* from the configuration and L: at every step s > L its beta and its
\* learning rate are those of an uninterrupted run of the same configuration
\* from step 0 at step s (stated for configurations with beta <= max_beta
\* and step_beta >= 0).
C20_ResumeMatchesUninterrupted ==
    (tpc # "Uninitialized" /\ total_step > cfg.load_epoch /\ SaneBeta) =>
        /\ beta = UninterruptedBeta(total_step)
        /\ lr = UninterruptedLr(total_step)

\* what holds instead: a run from starting step 0 follows the closed forms,
\* and a run from any starting step starts from the configured beta and one
\* decay of the configured learning rate
C20_ScheduleFromConfiguration ==
    /\ (tpc # "Uninitialized" /\ cfg.load_epoch = 0) =>
          /\ beta = UninterruptedBeta(total_step)
          /\ lr = UninterruptedLr(total_step)
    /\ (tpc # "Uninitialized" /\ StepsDone = 0) =>
          /\ beta = cfg.beta
          /\ lr = cfg.lr * cfg.anneal_rate

(***************************************************************************)
(* Claims about the pool (C21 checked under SpecPre, C22 under SpecFail).  *)
(***************************************************************************)
\* what one process that works through the list from its first element to
\* its last gets
SequentialVocab == [k \in 1..Len(list_smiles) |-> get_vocab(list_smiles[k])]

SequentialPreprocessed == [k \in 1..Len(list_smiles) |-> tensorize(list_smiles[k], TRUE)]

\* the number of elements of the chunks whose P.map has returned
Mapped == Min(chunk_no * ChunkSize, Len(list_smiles))

\* the transition is one worker's return
WorkerReturns == Len(completed') = Len(completed) + 1

\* C21: whatever the order in which the workers of the pool run and return,
\* preprocess returns the same processed sequence and the same index_map and
\* build_vocabulary the same set: the results are put together by the place
\* of their element in the chunk and of the chunk in the list, never by the
\* order of completion, and a worker writes nothing but its own result.
C21_OrderIndependent ==
    /\ [](/\ pc = "build_vocabulary" =>
                vocab_lists = SubSeq(SequentialVocab, 1, Mapped)
          /\ pc = "preprocess" =>
                preprocessed = SubSeq(SequentialPreprocessed, 1, Mapped)
          /\ VocabularyBuilt => Range(vocab) = Range(Flatten(SequentialVocab))
          /\ PreprocessReturned =>
                /\ preprocessed = SequentialPreprocessed
                /\ processed_idxs
                      = nonzero([k \in 1..Len(list_smiles) |->
                                    SequentialPreprocessed[k] # None])
                /\ processed_smiles = fancy_index(SequentialPreprocessed, processed_idxs))
    /\ [][WorkerReturns =>
             /\ \E i \in 1..Len(slots) :
                   /\ slots[i] = Pending
                   /\ slots' = [slots EXCEPT ![i] = slots'[i]]
                   /\ slots'[i] # Pending
             /\ UNCHANGED <<pc, list_smiles, chunk_no, vocab_lists, vocab,
                            preprocessed, processed_smiles, processed_idxs>>]_vars

\* preprocess has returned after the workers of the first chunk returned in
\* the reverse of the order of their elements, with two different trees
C21_Witness ==
    /\ PreprocessReturned
    /\ Len(completed) >= 2
    /\ completed[1] = 2
    /\ completed[2] = 1
    /\ Len(processed_smiles) >= 2
    /\ processed_smiles[1] # processed_smiles[2]
    /\ processed_smiles[1] = tensorize(list_smiles[1], TRUE)
    /\ processed_idxs[1] = 0
    /\ processed_idxs[2] = 1

\* the stage of _tensorize at which structure s raises, or "none"
RaisesAt(s) == MolTreeOf(s).raises

\* a tree as _tensorize returns it when no stage raised: every mol deleted,
\* every node's label among its candidates
Complete(t) ==
    /\ t.tag = "MolTree"
    /\ t.mol = FALSE
    /\ \A i \in 1..Len(t.nodes) :
          /\ t.nodes[i].mol = FALSE
          /\ t.nodes[i].label \in Range(t.nodes[i].cands)

\* C22: a structure that fails at any stage of a worker (the decomposition,
\* recover, the enumeration of the candidates, the deletion of the mol objects)
\* raises nothing past preprocess or build_vocabulary: the worker returns None
\* (preprocess) or [] (vocabulary), the call goes on to the end for the other
\* structures, and the structure shows only as a position missing from
\* index_map, never as a partly built tree in processed.
C22_FailuresContained ==
    /\ pc # "raised"
    /\ \A i \in 1..Len(slots) :
          /\ slots[i] # Raised
          /\ (pc = "build_vocabulary" /\ slots[i] # Pending
                 /\ RaisesAt(Chunk[i]) = "MolTree") => slots[i] = <<>>
          /\ (pc = "preprocess" /\ slots[i] # Pending
                 /\ RaisesAt(Chunk[i]) # "none") => slots[i] = None
    /\ VocabularyBuilt =>
          /\ Len(vocab_lists) = Len(list_smiles)
          /\ \A p \in 1..Len(list_smiles) :
                IF RaisesAt(list_smiles[p]) = "MolTree"
                THEN vocab_lists[p] = <<>>
                ELSE Range(vocab_lists[p]) \subseteq Range(vocab)
    /\ PreprocessReturned =>
          /\ Len(preprocessed) = Len(list_smiles)
          /\ \A p \in 1..Len(list_smiles) :
                IF RaisesAt(list_smiles[p]) # "none"
                THEN preprocessed[p] = None /\ (p - 1) \notin Range(processed_idxs)
                ELSE (p - 1) \in Range(processed_idxs)
          /\ \A i \in 1..Len(processed_smiles) : Complete(processed_smiles[i])

\* preprocess has returned for a list whose first structure raised at the
\* deletion of the mol objects, whose second raised in recover and whose
\* third went through: the third is all there is in processed
C22_Witness ==
    /\ PreprocessReturned
    /\ Len(list_smiles) = 3
    /\ RaisesAt(list_smiles[1]) = "del"
    /\ RaisesAt(list_smiles[2]) = "recover"
    /\ RaisesAt(list_smiles[3]) = "none"
    /\ processed_idxs = <<2>>
    /\ Len(processed_smiles) = 1
    /\ Complete(processed_smiles[1])

(***************************************************************************)
(* Claims about the experiment script's split (checked under SpecSplit).   *)
(***************************************************************************)
\* entry i of a part of the split belongs to one position of the dataset:
\* the raw structure, the tree and the label are those of one position p
SamePosition(raw, tree, lab) ==
    \E p \in 1..Len(list_smiles) :
        /\ raw = list_smiles[p]
        /\ tree = tensorize(list_smiles[p], TRUE)
        /\ lab = labels[p]

\* the three arrays of a part have one length and agree entry by entry
PartCorresponds(X, X_smiles, L) ==
    /\ Len(X) = Len(X_smiles)
    /\ Len(X) = Len(L)
    /\ \A i \in 1..Len(X) : SamePosition(X_smiles[i], X[i], L[i])

C23_TreesAndLabelsCorrespond ==
    pc = "split" =>
        LET n == Len(split.perm_id)
            X == split.X_test \o split.X_Val \o split.X_train
            S == split.X_test_smiles \o split.X_Val_smiles \o split.X_train_smiles
            L == split.L_test \o split.L_Val \o split.L_train
        IN  /\ Len(X) = n /\ Len(S) = n /\ Len(L) = n
            /\ \A i \in 1..n :
                  LET q == split.perm_id[i]
                      p == At(processed_idxs, q)
                  IN  /\ X[i] = tensorize(At(list_smiles, p), TRUE)
                      /\ L[i] = At(labels, p)
                      /\ S[i] = At(list_smiles, q)
            /\ Len(processed_idxs) = Len(list_smiles) =>
                  \A i \in 1..n : SamePosition(S[i], X[i], L[i])

(***************************************************************************)
(* Claims about the model's mode and the passes' arguments (checked under  *)
(* SpecReport).                                                            *)
(***************************************************************************)
\* C24: every forward call of a training step is made with the model in
\* training mode and every forward call of test_loop with the model in
\* inference mode: a pass at the end of an epoch switches the model to
\* inference mode and training mode is restored before the first step of the
\* next epoch, so no optimizer step follows a forward made in inference mode.
C24_Modes ==
    /\ \A i \in DOMAIN calls :
          /\ calls[i].caller = "train" => calls[i].training
          /\ calls[i].caller = "test_loop" => ~calls[i].training
    /\ AfterPass => ~training_mode
    /\ tpc = "Training" => training_mode
    /\ AfterTrainStep => (training_mode /\ Count(ops, "optimizer.step") = 1)

\* the first step of the second epoch, made after the two passes of the
\* first epoch, with the model back in training mode
C24_Witness ==
    /\ AfterTrainStep
    /\ epoch = 1
    /\ batch = 1
    /\ Len(passes) = 2
    /\ \A i \in DOMAIN calls : calls[i].training

\* C25: the passes at the end of an epoch are run with the alpha that was
\* passed to the model in the epoch's last training step, not with the
\* next_alpha that step computed, and with beta as it is after that step's
\* anneal check; the validation pass and the test pass of one epoch get the
\* same alpha and beta.
C25_PassArguments ==
    /\ [](AfterPass =>
             /\ emitted.alpha = alpha
             /\ emitted.beta = beta
             /\ \A i \in DOMAIN calls :
                   calls[i].alpha = emitted.alpha /\ calls[i].beta = emitted.beta)
    /\ [][(AfterTrainStep /\ passes' # passes) =>
             /\ emitted'.alpha = calls[1].alpha
             /\ emitted'.beta = beta]_vars
    /\ [][(AfterPass /\ tpc = "Testing" /\ passes' # passes) =>
             /\ emitted'.alpha = emitted.alpha
             /\ emitted'.beta = emitted.beta]_vars

\* the test pass of an epoch whose last step computed a next_alpha other
\* than the alpha it was run with, and after which beta was annealed
C25_Witness ==
    /\ AfterPass
    /\ emitted.phase = "Test"
    /\ PassLoaderLen >= 1
    /\ StepsDone >= 1
    /\ emitted.alpha # next_alpha
    /\ emitted.beta # cfg.beta
    /\ calls[1].alpha = alpha

====
